---- MODULE Spec2Model ----
(***************************************************************************)
(* Model of src/components/directives/group.tsx:                           *)
(*   - GroupDirectiveComponent, the group list editor (lines 262-670);     *)
(*   - CustomGroupEditorComponent, the simplified parameter editor built   *)
(*     by createGroupEditorComponent (lines 54-246).                       *)
(* Indices are 0-based as in the source; TLA+ sequences are 1-based, so    *)
(* the element at source index i is group[i + 1].                          *)
(***************************************************************************)
EXTENDS Integers, Sequences, FiniteSets, TLC

\* ------------------------------------------------------------------ bounds
\* Longest directive list the owner holds (adds are disabled beyond it).
MaxLen == 3
\* Most scroll timeouts pending at once (an appending add waits beyond it).
MaxTimers == 1
\* Most registerGroupEditor calls followed.
MaxRegs == 3

\* ------------------------------------------------------------------ values
\* null of the three index states (useState<number | null>(null)).
None == -1
\* The value JavaScript yields for an array read outside the array.
Undefined == "undefined"
\* Directives the user can add or a child editor can report.
Directives == {"a", "b"}
Directions == {"up", "down"}

VARIABLES
    \* GroupDirectiveComponent: props and state
    group,              \* the `group` prop: the owner's current sequence
    isExpanded,
    draggedIndex,
    dragOverIndex,
    deleteConfirmIndex,
    shouldScrollToNew,  \* shouldScrollToNew.current
    scrollTimers,       \* pending setTimeout callbacks of the scroll effect
    scrolls,            \* scrollIntoView calls made by the last step
    \* observation of the last list-editor handler
    lastOp,             \* the handler that just ran, with its arguments
    pre,                \* the props and state that handler started from
    onChangeCalls,      \* the sequences it passed to onChange, in order
    givenGroup,         \* the array that handler was given as `group`, as it left it
    \* CustomGroupEditorComponent: closure, props and state
    editorInfo,         \* the schema createGroupEditorComponent closed over
    customParams,       \* the `customParams` prop
    edGroup,            \* the `group` prop
    mounted,            \* the first render's effects have run
    initializedRef,     \* initializedRef.current
    showAdvanced,
    \* observation of the last simplified-editor handler
    edOp,               \* the handler that just ran, with its arguments
    edPre,              \* the props and state that handler started from
    edReports,          \* the (group, params) pairs it passed to onChange, in order
    edUpdateCalls,      \* its calls of editorInfo.updateDirective, in order
    autoInitReports,    \* reports the auto-initialize effect made since the mount
    onlyEdits,          \* mounted with empty params and only field edits since
    editedParams,       \* while onlyEdits: the latest value of each edited field
    \* module level: the group-editor registry
    groupEditors,       \* the Map<string, GroupEditor>
    registerDirectiveCalls, \* the metadata registerDirective was called with, in order
    \* observation of the registry's use
    regHistory,         \* the (name, editor) of every registerGroupEditor call so far
    regOp,              \* the registry function that just ran, with its arguments
    regPre,             \* the Map before that call
    regResult           \* what that call returned

listVars == <<group, isExpanded, draggedIndex, dragOverIndex, deleteConfirmIndex,
              shouldScrollToNew, scrollTimers, scrolls, lastOp, pre, onChangeCalls,
              givenGroup>>

editorVars == <<editorInfo, customParams, edGroup, mounted, initializedRef,
                showAdvanced, edOp, edPre, edReports, edUpdateCalls, autoInitReports,
                onlyEdits, editedParams>>

registryVars == <<groupEditors, registerDirectiveCalls, regHistory, regOp, regPre,
                  regResult>>

vars == <<listVars, editorVars, registryVars>>

\* What each component's steps leave alone.
nonListVars == <<editorVars, registryVars>>
nonEditorVars == <<listVars, registryVars>>
nonRegistryVars == <<listVars, editorVars>>

\* ------------------------------------------------------- JavaScript arrays
\* arr[i]: undefined outside the array.
At(arr, i) == IF 0 <= i /\ i < Len(arr) THEN arr[i + 1] ELSE Undefined

\* arr.splice(start, deleteCount, ...items) for start >= 0: the array after
\* the call. start is clamped to the length, deleteCount to what is left.
Splice(arr, start, deleteCount, items) ==
    LET s == IF start > Len(arr) THEN Len(arr) ELSE start
        left == Len(arr) - s
        d == IF deleteCount > left THEN left ELSE deleteCount
    IN SubSeq(arr, 1, s) \o items \o SubSeq(arr, s + d + 1, Len(arr))

\* arr.filter((_, i) => i !== index)
RECURSIVE FilterNot(_, _, _)
FilterNot(arr, index, i) ==
    IF i >= Len(arr) THEN <<>>
    ELSE (IF i # index THEN <<arr[i + 1]>> ELSE <<>>) \o FilterNot(arr, index, i + 1)

\* arr[i] = v on a copy: an index past the end grows the array, the skipped
\* places reading undefined; a negative index sets no element.
SetAt(arr, i, v) ==
    IF i < 0 THEN arr
    ELSE IF i < Len(arr) THEN [arr EXCEPT ![i + 1] = v]
    ELSE arr \o [k \in 1..(i - Len(arr)) |-> Undefined] \o <<v>>

\* ------------------------------------------------ list editor: pure parts
\* All sequences over Directives of length 0..n.
SeqsUpTo(n) == UNION {[1..k -> Directives] : k \in 0..n}

\* Mutant of DirectiveChangeGroup: the replacement lands one place too far.
DirectiveChangeGroupOffByOne(g, index, updatedDirective) ==
    SetAt(g, index + 1, updatedDirective)

\* handleDirectiveChange: the sequence passed to onChange.
DirectiveChangeGroup(g, index, updatedDirective) == SetAt(g, index, updatedDirective)

\* Mutant of AddShouldScroll: only an add without index asks for the scroll.
AddShouldScrollOnlyWithoutIndex(g, index) == index = None

\* addDirective: the flag it stores; index = None stands for `undefined`.
AddShouldScroll(g, index) == index = None \/ index >= Len(g)

\* Mutant of AddDirectiveGroup: the index is ignored, every add appends.
AddDirectiveGroupAlwaysAppends(g, directive, index) == Append(g, directive)

\* addDirective: the sequence passed to onChange.
AddDirectiveGroup(g, directive, index) ==
    IF index # None THEN Splice(g, index, 0, <<directive>>)
    ELSE Append(g, directive)

\* Mutant of RemoveDirectiveGroup: the filter keeps only what precedes index.
RemoveDirectiveGroupTruncates(g, index) == SubSeq(g, 1, index)

\* removeDirective: the sequence passed to onChange.
RemoveDirectiveGroup(g, index) == FilterNot(g, index, 0)

\* moveDirective: newIndex.
MoveNewIndex(index, direction) == IF direction = "up" THEN index - 1 ELSE index + 1

\* Mutant of MoveOutOfRange: the upper end is not checked.
MoveOutOfRangeLowOnly(g, newIndex) == newIndex < 0

\* moveDirective: the early return.
MoveOutOfRange(g, newIndex) == newIndex < 0 \/ newIndex >= Len(g)

\* Mutant of MoveDirectiveGroup: the item is copied to newIndex, not swapped.
MoveDirectiveGroupCopies(g, index, newIndex) == SetAt(g, newIndex, At(g, index))

\* moveDirective: the destructuring swap on the copy.
MoveDirectiveGroup(g, index, newIndex) ==
    SetAt(SetAt(g, index, At(g, newIndex)), newIndex, At(g, index))

\* Mutant of DropIsNoop: a drop onto the dragged item itself is not caught.
DropIsNoopOnlyWithoutDrag(dragged, dropIndex) == dragged = None

\* handleDrop: the early return.
DropIsNoop(dragged, dropIndex) == dragged = None \/ dragged = dropIndex

\* Mutant of DropInsertIndex: the shift caused by the removal is forgotten.
DropInsertIndexNoShift(dragged, dropIndex) == dropIndex

\* handleDrop: insertIndex.
DropInsertIndex(dragged, dropIndex) ==
    IF dragged < dropIndex THEN dropIndex - 1 ELSE dropIndex

\* Mutant of DropGroup: the dragged item and the drop target change places.
DropGroupSwaps(g, dragged, dropIndex) ==
    SetAt(SetAt(g, dragged, At(g, dropIndex)), dropIndex, At(g, dragged))

\* handleDrop: the sequence passed to onChange.
DropGroup(g, dragged, dropIndex) ==
    LET draggedItem == At(g, dragged)
        removed == Splice(g, dragged, 1, <<>>)
    IN Splice(removed, DropInsertIndex(dragged, dropIndex), 0, <<draggedItem>>)

\* lastDirectiveRef.current after a render: the ref sits on the last item,
\* which exists only in the expanded panel of a non-empty list.
LastDirectiveRef(g, expanded) == expanded /\ Len(g) > 0

\* Mutant of ScrollEffect: the effect does not look at shouldScrollToNew.
ScrollEffectIgnoresFlag(flag, timers, oldLen, g, expanded) ==
    IF Len(g) # oldLen /\ LastDirectiveRef(g, expanded)
    THEN [flag |-> FALSE, timers |-> timers + 1]
    ELSE [flag |-> flag, timers |-> timers]

\* The scroll effect after the render that follows a handler. Its dependency
\* is group.length, so it runs only when the length changed. Yields the flag
\* and the number of timeouts it leaves behind.
ScrollEffect(flag, timers, oldLen, g, expanded) ==
    IF Len(g) # oldLen /\ flag /\ LastDirectiveRef(g, expanded)
    THEN [flag |-> FALSE, timers |-> timers + 1]
    ELSE [flag |-> flag, timers |-> timers]

\* ------------------------------------------------ list editor: observation
Op(name, index, direction, directive) ==
    [name |-> name, index |-> index, direction |-> direction, directive |-> directive]

Snapshot ==
    [group |-> group, isExpanded |-> isExpanded, draggedIndex |-> draggedIndex,
     dragOverIndex |-> dragOverIndex, deleteConfirmIndex |-> deleteConfirmIndex,
     shouldScrollToNew |-> shouldScrollToNew, scrollTimers |-> scrollTimers]

\* Mutant of Report: the handler edits the array it was given instead of a
\* copy, and passes that array to onChange.
ReportMutatesInPlace(updatedGroup, flag) ==
    LET eff == ScrollEffect(flag, scrollTimers, Len(group), updatedGroup, isExpanded)
    IN /\ group' = updatedGroup
       /\ onChangeCalls' = <<updatedGroup>>
       /\ givenGroup' = updatedGroup
       /\ shouldScrollToNew' = eff.flag
       /\ scrollTimers' = eff.timers

\* The handler has built updatedGroup from a copy ([...group], filter) and
\* calls onChange(updatedGroup): the array it was given stays as it was. The
\* owner renders the editor again with the new sequence; the scroll effect
\* then runs on that render.
Report(updatedGroup, flag) ==
    LET eff == ScrollEffect(flag, scrollTimers, Len(group), updatedGroup, isExpanded)
    IN /\ group' = updatedGroup
       /\ onChangeCalls' = <<updatedGroup>>
       /\ givenGroup' = group
       /\ shouldScrollToNew' = eff.flag
       /\ scrollTimers' = eff.timers

NoReport ==
    /\ onChangeCalls' = <<>>
    /\ givenGroup' = group
    /\ UNCHANGED <<group, shouldScrollToNew, scrollTimers>>

\* Items with handlers: rendered only in the expanded panel.
Rendered == IF isExpanded THEN 0..(Len(group) - 1) ELSE {}

\* The observation of an idle editor: no handler is being looked at.
NoOp == Op("idle", None, "none", "none")
NoSnapshot ==
    [group |-> <<>>, isExpanded |-> TRUE, draggedIndex |-> None,
     dragOverIndex |-> None, deleteConfirmIndex |-> None,
     shouldScrollToNew |-> FALSE, scrollTimers |-> 0]

\* Handlers run one at a time, to completion (a single-threaded event loop):
\* the next event is taken only from an idle editor.
Idle == lastOp = NoOp

\* ------------------------------------------------------ list editor: Init
InitList ==
    /\ group \in SeqsUpTo(MaxLen)
    /\ isExpanded = TRUE
    /\ draggedIndex = None
    /\ dragOverIndex = None
    /\ deleteConfirmIndex = None
    /\ shouldScrollToNew = FALSE
    /\ scrollTimers = 0
    /\ scrolls = 0
    /\ lastOp = Op("mount", None, "none", "none")
    /\ pre = NoSnapshot
    /\ onChangeCalls = <<>>
    /\ givenGroup = <<>>

\* --------------------------------------------------- list editor: handlers
\* Mutant of ToggleExpand: collapsing or expanding also drops a pending delete.
ToggleExpandCancelsDelete ==
    /\ Idle
    /\ lastOp' = Op("toggleExpand", None, "none", "none")
    /\ pre' = Snapshot
    /\ isExpanded' = ~isExpanded
    /\ deleteConfirmIndex' = None
    /\ scrolls' = 0
    /\ NoReport
    /\ UNCHANGED <<nonListVars, draggedIndex, dragOverIndex>>

\* Header onClick: setIsExpanded(!isExpanded).
ToggleExpand ==
    /\ Idle
    /\ lastOp' = Op("toggleExpand", None, "none", "none")
    /\ pre' = Snapshot
    /\ isExpanded' = ~isExpanded
    /\ scrolls' = 0
    /\ NoReport
    /\ UNCHANGED <<nonListVars, draggedIndex, dragOverIndex, deleteConfirmIndex>>

\* handleDirectiveChange(index, updatedDirective), from the child at index.
HandleDirectiveChange ==
    /\ Idle
    /\ \E index \in Rendered, updatedDirective \in Directives :
        /\ lastOp' = Op("directiveChange", index, "none", updatedDirective)
        /\ pre' = Snapshot
        /\ scrolls' = 0
        /\ Report(DirectiveChangeGroup(group, index, updatedDirective), shouldScrollToNew)
        /\ UNCHANGED <<nonListVars, isExpanded, draggedIndex, dragOverIndex, deleteConfirmIndex>>

\* addDirective(directive, index?), from an AddDirectiveButton of the panel.
AddDirective ==
    /\ Idle
    /\ \E directive \in Directives, index \in {None} \cup 0..Len(group) :
        /\ isExpanded
        /\ Len(group) < MaxLen
        /\ AddShouldScroll(group, index) => scrollTimers < MaxTimers
        /\ lastOp' = Op("add", index, "none", directive)
        /\ pre' = Snapshot
        /\ scrolls' = 0
        /\ Report(AddDirectiveGroup(group, directive, index), AddShouldScroll(group, index))
        /\ UNCHANGED <<nonListVars, isExpanded, draggedIndex, dragOverIndex, deleteConfirmIndex>>

\* Mutant of HandleDeleteClick: the trash button removes the item at once.
HandleDeleteClickRemovesAtOnce ==
    /\ Idle
    /\ \E index \in Rendered :
        /\ lastOp' = Op("requestDelete", index, "none", "none")
        /\ pre' = Snapshot
        /\ scrolls' = 0
        /\ Report(RemoveDirectiveGroup(group, index), shouldScrollToNew)
        /\ UNCHANGED <<nonListVars, isExpanded, draggedIndex, dragOverIndex,
                       deleteConfirmIndex>>

\* handleDeleteClick(index): the trash button of the item at index.
HandleDeleteClick ==
    /\ Idle
    /\ \E index \in Rendered :
        /\ lastOp' = Op("requestDelete", index, "none", "none")
        /\ pre' = Snapshot
        /\ deleteConfirmIndex' = index
        /\ scrolls' = 0
        /\ NoReport
        /\ UNCHANGED <<nonListVars, isExpanded, draggedIndex, dragOverIndex>>

\* Mutant of CancelDelete: cancelling also ends the drag.
CancelDeleteEndsDrag ==
    /\ Idle
    /\ deleteConfirmIndex # None
    /\ lastOp' = Op("cancelDelete", None, "none", "none")
    /\ pre' = Snapshot
    /\ deleteConfirmIndex' = None
    /\ draggedIndex' = None
    /\ dragOverIndex' = None
    /\ scrolls' = 0
    /\ NoReport
    /\ UNCHANGED <<nonListVars, isExpanded>>

\* cancelDelete: the modal's Cancel button (the modal exists only while
\* deleteConfirmIndex is not null).
CancelDelete ==
    /\ Idle
    /\ deleteConfirmIndex # None
    /\ lastOp' = Op("cancelDelete", None, "none", "none")
    /\ pre' = Snapshot
    /\ deleteConfirmIndex' = None
    /\ scrolls' = 0
    /\ NoReport
    /\ UNCHANGED <<nonListVars, isExpanded, draggedIndex, dragOverIndex>>

\* removeDirective(deleteConfirmIndex): the modal's Delete button.
ConfirmDelete ==
    /\ Idle
    /\ deleteConfirmIndex # None
    /\ lastOp' = Op("confirmDelete", deleteConfirmIndex, "none", "none")
    /\ pre' = Snapshot
    /\ scrolls' = 0
    /\ Report(RemoveDirectiveGroup(group, deleteConfirmIndex), shouldScrollToNew)
    /\ deleteConfirmIndex' = None
    /\ UNCHANGED <<nonListVars, isExpanded, draggedIndex, dragOverIndex>>

\* moveDirective(index, direction): the up and down buttons of an item.
MoveDirective ==
    /\ Idle
    /\ \E index \in Rendered, direction \in Directions :
        LET newIndex == MoveNewIndex(index, direction) IN
        /\ lastOp' = Op("move", index, direction, "none")
        /\ pre' = Snapshot
        /\ scrolls' = 0
        /\ IF MoveOutOfRange(group, newIndex)
           THEN NoReport
           ELSE Report(MoveDirectiveGroup(group, index, newIndex), shouldScrollToNew)
        /\ UNCHANGED <<nonListVars, isExpanded, draggedIndex, dragOverIndex, deleteConfirmIndex>>

\* handleDragStart(e, index)
HandleDragStart ==
    /\ Idle
    /\ \E index \in Rendered :
        /\ lastOp' = Op("startDrag", index, "none", "none")
        /\ pre' = Snapshot
        /\ draggedIndex' = index
        /\ scrolls' = 0
        /\ NoReport
        /\ UNCHANGED <<nonListVars, isExpanded, dragOverIndex, deleteConfirmIndex>>

\* handleDragOver(e, index)
HandleDragOver ==
    /\ Idle
    /\ \E index \in Rendered :
        /\ lastOp' = Op("dragOver", index, "none", "none")
        /\ pre' = Snapshot
        /\ dragOverIndex' = index
        /\ scrolls' = 0
        /\ NoReport
        /\ UNCHANGED <<nonListVars, isExpanded, draggedIndex, deleteConfirmIndex>>

\* Mutant of HandleDragLeave: leaving an item also forgets the drag source.
HandleDragLeaveEndsDrag ==
    /\ Idle
    /\ Rendered # {}
    /\ lastOp' = Op("dragLeave", None, "none", "none")
    /\ pre' = Snapshot
    /\ draggedIndex' = None
    /\ dragOverIndex' = None
    /\ scrolls' = 0
    /\ NoReport
    /\ UNCHANGED <<nonListVars, isExpanded, deleteConfirmIndex>>

\* handleDragLeave
HandleDragLeave ==
    /\ Idle
    /\ Rendered # {}
    /\ lastOp' = Op("dragLeave", None, "none", "none")
    /\ pre' = Snapshot
    /\ dragOverIndex' = None
    /\ scrolls' = 0
    /\ NoReport
    /\ UNCHANGED <<nonListVars, isExpanded, draggedIndex, deleteConfirmIndex>>

\* handleDrop(e, dropIndex). A drop whose drag source lies past the end of
\* the list removes nothing and so lengthens the list; it is taken only
\* while the list is shorter than MaxLen.
HandleDrop ==
    /\ Idle
    /\ \E dropIndex \in Rendered :
        /\ lastOp' = Op("drop", dropIndex, "none", "none")
        /\ pre' = Snapshot
        /\ scrolls' = 0
        /\ IF DropIsNoop(draggedIndex, dropIndex)
           THEN NoReport
           ELSE /\ Len(group) < MaxLen \/ draggedIndex < Len(group)
                /\ Report(DropGroup(group, draggedIndex, dropIndex), shouldScrollToNew)
        /\ draggedIndex' = None
        /\ dragOverIndex' = None
        /\ UNCHANGED <<nonListVars, isExpanded, deleteConfirmIndex>>

\* handleDragEnd
HandleDragEnd ==
    /\ Idle
    /\ Rendered # {}
    /\ lastOp' = Op("dragEnd", None, "none", "none")
    /\ pre' = Snapshot
    /\ draggedIndex' = None
    /\ dragOverIndex' = None
    /\ scrolls' = 0
    /\ NoReport
    /\ UNCHANGED <<nonListVars, isExpanded, deleteConfirmIndex>>

\* Mutant of ScrollTimeout: the callback scrolls without looking at the ref.
ScrollTimeoutAlwaysScrolls ==
    /\ Idle
    /\ scrollTimers > 0
    /\ lastOp' = Op("scrollTimeout", None, "none", "none")
    /\ pre' = Snapshot
    /\ scrollTimers' = scrollTimers - 1
    /\ scrolls' = 1
    /\ onChangeCalls' = <<>>
    /\ givenGroup' = group
    /\ UNCHANGED <<nonListVars, group, isExpanded, draggedIndex, dragOverIndex,
                   deleteConfirmIndex, shouldScrollToNew>>

\* The setTimeout callback of the scroll effect:
\* lastDirectiveRef.current?.scrollIntoView(...).
ScrollTimeout ==
    /\ Idle
    /\ scrollTimers > 0
    /\ lastOp' = Op("scrollTimeout", None, "none", "none")
    /\ pre' = Snapshot
    /\ scrollTimers' = scrollTimers - 1
    /\ scrolls' = IF LastDirectiveRef(group, isExpanded) THEN 1 ELSE 0
    /\ onChangeCalls' = <<>>
    /\ givenGroup' = group
    /\ UNCHANGED <<nonListVars, group, isExpanded, draggedIndex, dragOverIndex,
                   deleteConfirmIndex, shouldScrollToNew>>

\* The handler has returned and the editor has rendered: back to idle.
SettleList ==
    /\ ~Idle
    /\ lastOp' = NoOp
    /\ pre' = NoSnapshot
    /\ onChangeCalls' = <<>>
    /\ givenGroup' = <<>>
    /\ scrolls' = 0
    /\ UNCHANGED <<nonListVars, group, isExpanded, draggedIndex, dragOverIndex,
                   deleteConfirmIndex, shouldScrollToNew, scrollTimers>>

\* Sequences the owner puts in place of its own accord: one of every length,
\* alternating the two directives.
OwnerGroups ==
    {[i \in 1..n |-> IF i % 2 = 1 THEN "a" ELSE "b"] : n \in 0..MaxLen}

\* The owner renders the editor with another sequence of its own accord (a
\* recipe is loaded, an undo): no handler of the editor runs, the scroll
\* effect does.
OwnerReplace ==
    /\ Idle
    /\ \E g \in OwnerGroups :
        LET eff == ScrollEffect(shouldScrollToNew, scrollTimers, Len(group), g, isExpanded)
        IN /\ g # group
           /\ eff.timers <= MaxTimers
           /\ lastOp' = Op("ownerReplace", None, "none", "none")
           /\ pre' = Snapshot
           /\ scrolls' = 0
           /\ group' = g
           /\ onChangeCalls' = <<>>
           /\ givenGroup' = group
           /\ shouldScrollToNew' = eff.flag
           /\ scrollTimers' = eff.timers
    /\ UNCHANGED <<nonListVars, isExpanded, draggedIndex, dragOverIndex, deleteConfirmIndex>>

NextList ==
    \/ SettleList
    \/ ToggleExpand
    \/ HandleDirectiveChange
    \/ AddDirective
    \/ HandleDeleteClick
    \/ CancelDelete
    \/ ConfirmDelete
    \/ MoveDirective
    \/ HandleDragStart
    \/ HandleDragOver
    \/ HandleDragLeave
    \/ HandleDrop
    \/ HandleDragEnd
    \/ ScrollTimeout


\* ============================================ simplified parameter editor
\* Schemas the editor is built from (editorInfo.arguments). "spec8" is the
\* three-field schema with every default declared; "mixed" declares some
\* defaults and has an advanced field; "bare" declares none.
Schemas == {"spec8", "mixed", "bare"}

Arg(name, type, hasDefault, advanced) ==
    [name |-> name, type |-> type, hasDefault |-> hasDefault, advanced |-> advanced]

\* editorInfo.arguments, in order. hasDefault: 'defaultValue' in arg and
\* arg.defaultValue !== undefined.
Arguments(e) ==
    CASE e = "spec8" -> <<Arg("mode", "dropdown", TRUE, FALSE),
                          Arg("tags", "array", TRUE, FALSE),
                          Arg("verbose", "boolean", TRUE, FALSE)>>
      [] e = "mixed" -> <<Arg("mode", "dropdown", TRUE, FALSE),
                          Arg("tags", "array", FALSE, FALSE),
                          Arg("verbose", "boolean", TRUE, FALSE),
                          Arg("note", "text", FALSE, TRUE)>>
      [] e = "bare"  -> <<Arg("mode", "dropdown", FALSE, FALSE),
                          Arg("tags", "array", FALSE, FALSE),
                          Arg("verbose", "boolean", FALSE, FALSE),
                          Arg("note", "text", FALSE, TRUE)>>

\* arg.defaultValue of the fields that declare one.
DefaultValue(name) ==
    CASE name = "mode" -> "fast"
      [] name = "tags" -> <<>>
      [] name = "verbose" -> FALSE
      [] name = "note" -> ""

ArgNames(e) == {Arguments(e)[i].name : i \in 1..Len(Arguments(e))}

ArgOf(e, name) == CHOOSE a \in {Arguments(e)[i] : i \in 1..Len(Arguments(e))} : a.name = name

\* Object.keys(params)
Keys(params) == DOMAIN params

\* {}
EmptyParams == [k \in {} |-> FALSE]

\* Mutant of GetDefaultParams: a field without a declared default is stored
\* too, with the empty string.
GetDefaultParamsStoresAll(e) ==
    [k \in ArgNames(e) |-> IF ArgOf(e, k).hasDefault THEN DefaultValue(k) ELSE ""]

\* getDefaultParams(): the declared defaults, keyed by field name.
GetDefaultParams(e) ==
    [k \in {n \in ArgNames(e) : ArgOf(e, n).hasDefault} |-> DefaultValue(k)]

\* Mutant of CurrentParams: every edit starts from the defaults again.
CurrentParamsAlwaysDefaults(e, cp) == GetDefaultParams(e)

\* currentParams
CurrentParams(e, cp) == IF Keys(cp) # {} THEN cp ELSE GetDefaultParams(e)

\* Mutant of MergeParam: the edit replaces the mapping instead of merging.
MergeParamReplaces(params, key, value) == [k \in {key} |-> value]

\* { ...currentParams, [key]: value }
MergeParam(params, key, value) ==
    [k \in Keys(params) \cup {key} |-> IF k = key THEN value ELSE params[k]]

\* editorInfo.updateDirective(args).group. The function belongs to the
\* schema; here it emits one directive per argument present in args, in
\* schema order, carrying the argument's name and value.
RECURSIVE DirectivesFrom(_, _, _)
DirectivesFrom(args, params, i) ==
    IF i > Len(args) THEN <<>>
    ELSE (IF args[i].name \in Keys(params)
          THEN <<<<args[i].name, params[args[i].name]>>>>
          ELSE <<>>) \o DirectivesFrom(args, params, i + 1)

UpdateDirective(e, params) == DirectivesFrom(Arguments(e), params, 1)

\* One call of onGroupChange(updatedGroup, params).
EdReport(g, params) == [group |-> g, params |-> params]

\* Mutant of AutoInitialize: the effect does not look at initializedRef.
AutoInitializeWithoutRef(e, cp, g, initRef, reports) ==
    IF Keys(cp) = {}
    THEN [customParams |-> GetDefaultParams(e),
          group |-> UpdateDirective(e, GetDefaultParams(e)),
          initializedRef |-> TRUE,
          reports |-> Append(reports, EdReport(UpdateDirective(e, GetDefaultParams(e)),
                                               GetDefaultParams(e))),
          fired |-> TRUE]
    ELSE [customParams |-> cp, group |-> g, initializedRef |-> initRef,
          reports |-> reports, fired |-> FALSE]

\* The auto-initialize effect, run after a render with props (cp, g): the
\* editor's props, ref and reports once the owner has taken what the effect
\* reported. The render that follows the effect's own report finds the ref
\* set and reports nothing more.
AutoInitialize(e, cp, g, initRef, reports) ==
    IF ~initRef /\ Keys(cp) = {}
    THEN [customParams |-> GetDefaultParams(e),
          group |-> UpdateDirective(e, GetDefaultParams(e)),
          initializedRef |-> TRUE,
          reports |-> Append(reports, EdReport(UpdateDirective(e, GetDefaultParams(e)),
                                               GetDefaultParams(e))),
          fired |-> TRUE]
    ELSE [customParams |-> cp, group |-> g, initializedRef |-> initRef,
          reports |-> reports, fired |-> FALSE]

\* Values a field's control can deliver to updateParameter. The boolean
\* toggle delivers the strings "true" and "false", which the handler turns
\* into a boolean with value === 'true'.
ControlValues(type) ==
    CASE type = "dropdown" -> {"fast", "slow"}
      [] type = "boolean" -> {"true", "false"}
      [] type = "array" -> {<<>>, <<"x">>}
      [] type = "text" -> {"", "n"}

\* The value updateParameter receives from the control of a field.
Delivered(type, raw) == IF type = "boolean" THEN raw = "true" ELSE raw

\* 'defaultValue' in arg: the schema object carries the property, possibly
\* with the value undefined ("mixed" writes defaultValue: undefined for the
\* two fields it gives no default; "bare" leaves the property out).
HasDefaultKey(e, name) ==
    \/ ArgOf(e, name).hasDefault
    \/ e = "mixed" /\ name \in {"tags", "note"}

\* A JavaScript value with its runtime type.
JsValue(t, v) == [t |-> t, v |-> v]

\* The runtime type of the values a field of this schema type holds.
JsType(type) ==
    CASE type = "boolean" -> "boolean"
      [] type = "array" -> "array"
      [] type \in {"dropdown", "text"} -> "string"

\* getDefaultValue() of renderArgument: arg.defaultValue ?? <empty of type>
\* for boolean, text and array when the property is there, '' otherwise.
GetDefaultValue(e, name) ==
    LET arg == ArgOf(e, name)
    IN IF arg.type \in {"boolean", "text", "array"} /\ HasDefaultKey(e, name)
       THEN IF arg.hasDefault
            THEN JsValue(JsType(arg.type), DefaultValue(name))
            ELSE CASE arg.type = "boolean" -> JsValue("boolean", FALSE)
                   [] arg.type = "text" -> JsValue("string", "")
                   [] arg.type = "array" -> JsValue("array", <<>>)
       ELSE JsValue("string", "")

\* currentValue of renderArgument: currentParams[arg.name] ?? getDefaultValue()
CurrentValue(e, cp, name) ==
    IF name \in Keys(CurrentParams(e, cp))
    THEN JsValue(JsType(ArgOf(e, name).type), CurrentParams(e, cp)[name])
    ELSE GetDefaultValue(e, name)

\* Fields whose control is rendered: advanced ones only while shown.
RenderedArgs(e, advancedShown) ==
    {n \in ArgNames(e) : ArgOf(e, n).advanced => advancedShown}

\* Custom params an owner mounts the editor with.
MountParams(id) ==
    CASE id = "empty" -> EmptyParams
      [] id = "one" -> [k \in {"verbose"} |-> TRUE]
      [] id = "all" -> [mode |-> "slow", tags |-> <<"x">>, verbose |-> TRUE]

\* The record of edits with one more: key now has value.
Override(edits, key, value) ==
    [k \in DOMAIN edits \cup {key} |-> IF k = key THEN value ELSE edits[k]]

EdOp(name, key, value) == [name |-> name, key |-> key, value |-> value]

EdSnapshot ==
    [customParams |-> customParams, group |-> edGroup,
     initializedRef |-> initializedRef, showAdvanced |-> showAdvanced]

NoEdSnapshot ==
    [customParams |-> EmptyParams, group |-> <<>>, initializedRef |-> FALSE,
     showAdvanced |-> FALSE]

EdIdle == edOp.name = "idle"

\* The component has rendered once; its effects have not run yet.
InitEditor ==
    /\ editorInfo \in Schemas
    /\ \E id \in {"empty", "one", "all"} : customParams = MountParams(id)
    /\ \E stale \in BOOLEAN :
           edGroup = IF stale THEN <<<<"mode", "slow">>>>
                     ELSE UpdateDirective(editorInfo, customParams)
    /\ mounted = FALSE
    /\ initializedRef = FALSE
    /\ showAdvanced = FALSE
    /\ edOp = EdOp("render", "none", "none")
    /\ edPre = NoEdSnapshot
    /\ edReports = <<>>
    /\ edUpdateCalls = <<>>
    /\ autoInitReports = 0
    /\ onlyEdits = (Keys(customParams) = {})
    /\ editedParams = EmptyParams

\* One call of editorInfo.updateDirective(args), by a handler or the effect.
UpdateCall(by, args) == [by |-> by, args |-> args]

\* A handler has made `reports` and the updateDirective calls `calls`. The
\* owner takes the last report, if any, and renders the editor with it; the
\* auto-initialize effect runs on that render.
AfterHandler(reports, calls) ==
    LET cp == IF reports = <<>> THEN customParams ELSE reports[Len(reports)].params
        g == IF reports = <<>> THEN edGroup ELSE reports[Len(reports)].group
        r == AutoInitialize(editorInfo, cp, g, initializedRef, reports)
    IN /\ customParams' = r.customParams
       /\ edGroup' = r.group
       /\ initializedRef' = r.initializedRef
       /\ edReports' = r.reports
       /\ edUpdateCalls' = IF r.fired
                           THEN Append(calls, UpdateCall("effect", GetDefaultParams(editorInfo)))
                           ELSE calls
       /\ autoInitReports' = IF r.fired THEN autoInitReports + 1 ELSE autoInitReports

\* The effects of the first render.
MountEffect ==
    /\ EdIdle
    /\ ~mounted
    /\ mounted' = TRUE
    /\ edOp' = EdOp("mount", "none", "none")
    /\ edPre' = EdSnapshot
    /\ AfterHandler(<<>>, <<>>)
    /\ UNCHANGED <<nonEditorVars, editorInfo, showAdvanced, onlyEdits, editedParams>>

\* updateParameter(key, value), from the control of a rendered field.
UpdateParameter ==
    /\ EdIdle
    /\ mounted
    /\ \E key \in RenderedArgs(editorInfo, showAdvanced) :
         \E raw \in ControlValues(ArgOf(editorInfo, key).type) :
           LET value == Delivered(ArgOf(editorInfo, key).type, raw)
               updatedParams == MergeParam(CurrentParams(editorInfo, customParams), key, value)
           IN /\ edOp' = EdOp("updateParameter", key, value)
              /\ edPre' = EdSnapshot
              /\ AfterHandler(<<EdReport(UpdateDirective(editorInfo, updatedParams),
                                         updatedParams)>>,
                              <<UpdateCall("handler", updatedParams)>>)
              /\ editedParams' = IF onlyEdits THEN Override(editedParams, key, value)
                                 ELSE editedParams
    /\ UNCHANGED <<nonEditorVars, editorInfo, mounted, showAdvanced, onlyEdits>>

\* Mutant of SwitchToAdvanced: the button regenerates the directives from
\* the defaults before it drops the params.
SwitchToAdvancedRegenerates ==
    /\ EdIdle
    /\ mounted
    /\ edOp' = EdOp("switchToAdvanced", "none", "none")
    /\ edPre' = EdSnapshot
    /\ AfterHandler(<<EdReport(UpdateDirective(editorInfo, GetDefaultParams(editorInfo)),
                               EmptyParams)>>,
                    <<UpdateCall("handler", GetDefaultParams(editorInfo))>>)
    /\ onlyEdits' = FALSE
    /\ editedParams' = EmptyParams
    /\ UNCHANGED <<nonEditorVars, editorInfo, mounted, showAdvanced>>

\* The Switch to Advanced Mode button: onChangeWrapper(group, {}).
SwitchToAdvanced ==
    /\ EdIdle
    /\ mounted
    /\ edOp' = EdOp("switchToAdvanced", "none", "none")
    /\ edPre' = EdSnapshot
    /\ AfterHandler(<<EdReport(edGroup, EmptyParams)>>, <<>>)
    /\ onlyEdits' = FALSE
    /\ editedParams' = EmptyParams
    /\ UNCHANGED <<nonEditorVars, editorInfo, mounted, showAdvanced>>

\* The Show/Hide Advanced button, rendered when the schema has advanced fields.
ToggleShowAdvanced ==
    /\ EdIdle
    /\ mounted
    /\ \E n \in ArgNames(editorInfo) : ArgOf(editorInfo, n).advanced
    /\ edOp' = EdOp("toggleShowAdvanced", "none", "none")
    /\ edPre' = EdSnapshot
    /\ showAdvanced' = ~showAdvanced
    /\ edReports' = <<>>
    /\ edUpdateCalls' = <<>>
    /\ UNCHANGED <<nonEditorVars, editorInfo, customParams, edGroup, mounted,
                   initializedRef, autoInitReports, onlyEdits, editedParams>>

\* The owner renders the editor again with the same props; if it passes a
\* fresh params object the effect runs again.
Rerender ==
    /\ EdIdle
    /\ mounted
    /\ edOp' = EdOp("rerender", "none", "none")
    /\ edPre' = EdSnapshot
    /\ AfterHandler(<<>>, <<>>)
    /\ UNCHANGED <<nonEditorVars, editorInfo, mounted, showAdvanced, onlyEdits,
                   editedParams>>

\* The handler has returned and the editor has rendered: back to idle.
SettleEditor ==
    /\ ~EdIdle
    /\ edOp' = EdOp("idle", "none", "none")
    /\ edPre' = NoEdSnapshot
    /\ edReports' = <<>>
    /\ edUpdateCalls' = <<>>
    /\ UNCHANGED <<nonEditorVars, editorInfo, customParams, edGroup, mounted,
                   initializedRef, showAdvanced, autoInitReports, onlyEdits,
                   editedParams>>

NextEditor ==
    \/ SettleEditor
    \/ MountEffect
    \/ UpdateParameter
    \/ SwitchToAdvanced
    \/ ToggleShowAdvanced
    \/ Rerender

\* ================================================== group-editor registry
\* Names editors are registered under.
EditorNames == {"n1", "n2"}

\* new Map()
EmptyMap == [k \in {} |-> "none"]

\* Mutant of MapSet: an existing entry is kept.
MapSetKeepsFirst(m, key, value) ==
    [k \in DOMAIN m \cup {key} |-> IF k \in DOMAIN m THEN m[k] ELSE value]

\* Map.prototype.set(key, value)
MapSet(m, key, value) ==
    [k \in DOMAIN m \cup {key} |-> IF k = key THEN value ELSE m[k]]

\* Map.prototype.get(key): undefined for a key the Map does not hold.
MapGet(m, key) == IF key \in DOMAIN m THEN m[key] ELSE Undefined

\* editor.metadata: a DirectiveMetadata, with its own component field.
EditorMetadata(e) == [key |-> e, component |-> [of |-> "metadata", editorInfo |-> e]]

\* createGroupEditorComponent(editor): the form component closed over editor.
CreateGroupEditorComponent(e) == [of |-> "createGroupEditorComponent", editorInfo |-> e]

\* Mutant of RegisterMetadata: the editor's own component is not replaced.
RegisterMetadataKeepsComponent(e) == EditorMetadata(e)

\* {...editor.metadata, component}
RegisterMetadata(e) ==
    [EditorMetadata(e) EXCEPT !.component = CreateGroupEditorComponent(e)]

RegOp(name, key, editor) == [name |-> name, key |-> key, editor |-> editor]

InitRegistry ==
    /\ groupEditors = EmptyMap
    /\ registerDirectiveCalls = <<>>
    /\ regHistory = <<>>
    /\ regOp = RegOp("load", "none", "none")
    /\ regPre = EmptyMap
    /\ regResult = Undefined

\* registerGroupEditor(name, editor)
RegisterGroupEditor ==
    /\ Len(regHistory) < MaxRegs
    /\ \E name \in EditorNames, editor \in Schemas :
        /\ groupEditors' = MapSet(groupEditors, name, editor)
        /\ registerDirectiveCalls' = Append(registerDirectiveCalls, RegisterMetadata(editor))
        /\ regHistory' = Append(regHistory, [name |-> name, editor |-> editor])
        /\ regOp' = RegOp("registerGroupEditor", name, editor)
        /\ regPre' = groupEditors
        /\ regResult' = Undefined
    /\ UNCHANGED nonRegistryVars

\* getGroupEditor(name)
GetGroupEditor ==
    /\ \E name \in EditorNames :
        /\ regOp' = RegOp("getGroupEditor", name, "none")
        /\ regPre' = groupEditors
        /\ regResult' = MapGet(groupEditors, name)
    /\ UNCHANGED <<nonRegistryVars, groupEditors, registerDirectiveCalls, regHistory>>

NextRegistry ==
    \/ RegisterGroupEditor
    \/ GetGroupEditor

\* ------------------------------------------------------- specifications
\* Each component is checked on its own, the other one not mounted.
ListParked ==
    /\ group = <<>>
    /\ isExpanded = TRUE
    /\ draggedIndex = None
    /\ dragOverIndex = None
    /\ deleteConfirmIndex = None
    /\ shouldScrollToNew = FALSE
    /\ scrollTimers = 0
    /\ scrolls = 0
    /\ lastOp = NoOp
    /\ pre = NoSnapshot
    /\ onChangeCalls = <<>>
    /\ givenGroup = <<>>

EditorParked ==
    /\ editorInfo = "spec8"
    /\ customParams = EmptyParams
    /\ edGroup = <<>>
    /\ mounted = FALSE
    /\ initializedRef = FALSE
    /\ showAdvanced = FALSE
    /\ edOp = EdOp("idle", "none", "none")
    /\ edPre = NoEdSnapshot
    /\ edReports = <<>>
    /\ edUpdateCalls = <<>>
    /\ autoInitReports = 0
    /\ onlyEdits = (Keys(customParams) = {})
    /\ editedParams = EmptyParams

\* No editor is registered and the registry is not used.
RegistryParked == InitRegistry

\* The group list editor.
Init == InitList /\ EditorParked /\ RegistryParked
Next == NextList
Spec == Init /\ [][Next]_vars

\* The group list editor under an owner that also replaces the sequence of
\* its own accord.
NextOwner == NextList \/ OwnerReplace
SpecOwner == Init /\ [][NextOwner]_vars

\* The simplified parameter editor.
InitEd == InitEditor /\ ListParked /\ RegistryParked
NextEd == NextEditor
SpecEditor == InitEd /\ [][NextEd]_vars

\* The module-level registry of group editors.
InitReg == InitRegistry /\ ListParked /\ EditorParked
NextReg == NextRegistry
SpecRegistry == InitReg /\ [][NextReg]_vars

\* ============================================================== claims
\* Reference operations on sequences, written position by position and
\* independently of the splice/filter model above (indices are 0-based).
RemoveAtIdx(s, a) == [i \in 1..(Len(s) - 1) |-> IF i <= a THEN s[i] ELSE s[i + 1]]

InsertAtIdx(s, k, x) ==
    [i \in 1..(Len(s) + 1) |-> IF i <= k THEN s[i] ELSE IF i = k + 1 THEN x ELSE s[i - 1]]

InBounds(i, s) == 0 <= i /\ i < Len(s)

\* The handler changed nothing of the editor's props and state.
StateAsBefore ==
    /\ group = pre.group
    /\ isExpanded = pre.isExpanded
    /\ draggedIndex = pre.draggedIndex
    /\ dragOverIndex = pre.dragOverIndex
    /\ deleteConfirmIndex = pre.deleteConfirmIndex
    /\ shouldScrollToNew = pre.shouldScrollToNew
    /\ scrollTimers = pre.scrollTimers

\* C1: a drop on b with an active drag source a # b, both within bounds,
\* reports exactly the sequence with the element at a removed and re-inserted
\* at b-1 when a < b and at b when a > b; both drag indices are then none.
C1_DropReorders ==
    (/\ lastOp.name = "drop"
     /\ pre.draggedIndex # None
     /\ pre.draggedIndex # lastOp.index
     /\ InBounds(pre.draggedIndex, pre.group)
     /\ InBounds(lastOp.index, pre.group))
    => LET a == pre.draggedIndex
           b == lastOp.index
       IN /\ onChangeCalls =
                <<InsertAtIdx(RemoveAtIdx(pre.group, a), IF a < b THEN b - 1 ELSE b,
                              pre.group[a + 1])>>
          /\ draggedIndex = None
          /\ dragOverIndex = None

\* A drop two places further down that changed the order.
C1_Witness ==
    /\ lastOp.name = "drop"
    /\ pre.draggedIndex # None
    /\ InBounds(pre.draggedIndex, pre.group)
    /\ pre.draggedIndex + 2 = lastOp.index
    /\ onChangeCalls # <<pre.group>>
    /\ Len(onChangeCalls) = 1

\* C2: a drop with no drag source, or onto the drag source itself, reports
\* nothing, leaves the sequence as it was and clears both drag indices.
C2_DropNoop ==
    (/\ lastOp.name = "drop"
     /\ (pre.draggedIndex = None \/ pre.draggedIndex = lastOp.index))
    => /\ onChangeCalls = <<>>
       /\ group = pre.group
       /\ draggedIndex = None
       /\ dragOverIndex = None

\* A drop of an item onto itself while a drag-over mark was set.
C2_Witness ==
    /\ lastOp.name = "drop"
    /\ pre.draggedIndex = lastOp.index
    /\ pre.dragOverIndex # None

\* C3: confirmDelete reports the current sequence without the element at the
\* pending index (one shorter, the rest in order) and clears pendingDelete.
C3_ConfirmDeleteRemovesOne ==
    lastOp.name = "confirmDelete"
    => /\ pre.deleteConfirmIndex = lastOp.index
       /\ InBounds(lastOp.index, pre.group)
       /\ Len(onChangeCalls) = 1
       /\ Len(onChangeCalls[1]) = Len(pre.group) - 1
       /\ onChangeCalls[1] = RemoveAtIdx(pre.group, lastOp.index)
       /\ deleteConfirmIndex = None

\* A confirmed delete of an element that is neither first nor last.
C3_Witness ==
    /\ lastOp.name = "confirmDelete"
    /\ 0 < lastOp.index
    /\ lastOp.index < Len(pre.group) - 1

\* C4: each of dragSource, dragOverTarget and pendingDelete is none or an
\* index inside the current sequence, in every reachable state.
C4_IndexValidity ==
    /\ draggedIndex = None \/ InBounds(draggedIndex, group)
    /\ dragOverIndex = None \/ InBounds(dragOverIndex, group)
    /\ deleteConfirmIndex = None \/ InBounds(deleteConfirmIndex, group)

\* C5: add(d) reports the sequence with d appended; add(d, k), 0 <= k <= len,
\* reports the sequence with d at position k, the former elements 0..k-1
\* before it and the former elements k..len-1 after it.
C5_AddInserts ==
    lastOp.name = "add"
    => LET k == IF lastOp.index = None THEN Len(pre.group) ELSE lastOp.index
           r == onChangeCalls[1]
       IN /\ Len(onChangeCalls) = 1
          /\ Len(r) = Len(pre.group) + 1
          /\ r[k + 1] = lastOp.directive
          /\ \A i \in 0..(k - 1) : r[i + 1] = pre.group[i + 1]
          /\ \A i \in k..(Len(pre.group) - 1) : r[i + 2] = pre.group[i + 1]
          /\ lastOp.index = None => r = Append(pre.group, lastOp.directive)

\* An insertion strictly inside the list, between two differing neighbours.
C5_Witness ==
    /\ lastOp.name = "add"
    /\ 0 < lastOp.index
    /\ lastOp.index < Len(pre.group)
    /\ pre.group[lastOp.index] # pre.group[lastOp.index + 1]

\* moveDirective applied to a sequence: what the owner holds afterwards.
MoveResult(g, index, direction) ==
    IF MoveOutOfRange(g, MoveNewIndex(index, direction)) THEN g
    ELSE MoveDirectiveGroup(g, index, MoveNewIndex(index, direction))

Opposite(direction) == IF direction = "up" THEN "down" ELSE "up"

\* C6: after an in-range move(i, dir), the opposite move on the element's new
\* index is in range too and restores the original sequence.
C6_MoveSelfInverse ==
    (lastOp.name = "move" /\ onChangeCalls # <<>>)
    => LET i == lastOp.index
           t == IF lastOp.direction = "up" THEN i - 1 ELSE i + 1
       IN /\ InBounds(i, pre.group) /\ InBounds(t, pre.group)
          /\ MoveNewIndex(t, Opposite(lastOp.direction)) = i
          /\ MoveResult(group, t, Opposite(lastOp.direction)) = pre.group

\* An in-range move that changed the order.
C6_Witness ==
    /\ lastOp.name = "move"
    /\ onChangeCalls # <<>>
    /\ group # pre.group

\* C7: move(i, up|down) with target i-1 or i+1 outside [0, len) reports
\* nothing and changes no state; otherwise it reports the sequence with the
\* elements at i and target exchanged and every other position unchanged.
C7_MoveSwapsOrNoop ==
    lastOp.name = "move"
    => LET i == lastOp.index
           t == IF lastOp.direction = "up" THEN i - 1 ELSE i + 1
       IN IF t < 0 \/ t >= Len(pre.group)
          THEN onChangeCalls = <<>> /\ StateAsBefore
          ELSE /\ Len(onChangeCalls) = 1
               /\ Len(onChangeCalls[1]) = Len(pre.group)
               /\ onChangeCalls[1][i + 1] = pre.group[t + 1]
               /\ onChangeCalls[1][t + 1] = pre.group[i + 1]
               /\ \A j \in 0..(Len(pre.group) - 1) :
                      (j # i /\ j # t) => onChangeCalls[1][j + 1] = pre.group[j + 1]

\* A move down of the last item of a list of at least two.
C7_Witness ==
    /\ lastOp.name = "move"
    /\ lastOp.direction = "down"
    /\ lastOp.index = Len(pre.group) - 1
    /\ Len(pre.group) >= 2

\* C8: cancelDelete reports nothing, leaves the sequence alone, sets
\* pendingDelete to none and leaves expanded and both drag indices unchanged.
C8_CancelDeleteFrame ==
    lastOp.name = "cancelDelete"
    => /\ onChangeCalls = <<>>
       /\ group = pre.group
       /\ deleteConfirmIndex = None
       /\ isExpanded = pre.isExpanded
       /\ draggedIndex = pre.draggedIndex
       /\ dragOverIndex = pre.dragOverIndex

\* A cancel while a delete was pending and a drag was active.
C8_Witness ==
    /\ lastOp.name = "cancelDelete"
    /\ pre.deleteConfirmIndex # None
    /\ pre.draggedIndex # None
    /\ pre.dragOverIndex # None

\* The declared defaults of each schema, written out.
DeclaredDefaults(e) ==
    CASE e = "spec8" -> [mode |-> "fast", tags |-> <<>>, verbose |-> FALSE]
      [] e = "mixed" -> [mode |-> "fast", verbose |-> FALSE]
      [] e = "bare"  -> EmptyParams

SameMapping(p, q) == DOMAIN p = DOMAIN q /\ \A k \in DOMAIN p : p[k] = q[k]

\* C9: mounted with empty custom params, the editor's first (and only)
\* report on mount carries the mapping of the schema's fields to their
\* declared defaults and the directive list updateDirective returns for that
\* mapping; mounted with non-empty custom params, its current params are the
\* custom params and it reports nothing on mount.
C9_MountReportsDefaults ==
    edOp.name = "mount"
    => IF DOMAIN edPre.customParams = {}
       THEN /\ Len(edReports) = 1
            /\ SameMapping(edReports[1].params, DeclaredDefaults(editorInfo))
            /\ edReports[1].group = UpdateDirective(editorInfo, DeclaredDefaults(editorInfo))
       ELSE /\ edReports = <<>>
            /\ SameMapping(customParams, edPre.customParams)
            /\ SameMapping(CurrentParams(editorInfo, customParams), edPre.customParams)

\* The three-field schema mounted with empty custom params has reported
\* {mode: "fast", tags: [], verbose: false}.
C9_Witness ==
    /\ edOp.name = "mount"
    /\ editorInfo = "spec8"
    /\ DOMAIN edPre.customParams = {}
    /\ Len(edReports) = 1
    /\ edReports[1].params.mode = "fast"
    /\ edReports[1].params.tags = <<>>
    /\ edReports[1].params.verbose = FALSE

\* C10: editing field k to value v reports the current parameter mapping
\* with only key k replaced by v, together with the directive list
\* updateDirective returns for that mapping.
C10_EditMergesOneKey ==
    edOp.name = "updateParameter"
    => LET cur == IF DOMAIN edPre.customParams # {} THEN edPre.customParams
                  ELSE DeclaredDefaults(editorInfo)
           k == edOp.key
       IN /\ Len(edReports) = 1
          /\ DOMAIN edReports[1].params = DOMAIN cur \cup {k}
          /\ edReports[1].params[k] = edOp.value
          /\ \A j \in DOMAIN cur \ {k} : edReports[1].params[j] = cur[j]
          /\ edReports[1].group = UpdateDirective(editorInfo, edReports[1].params)

\* verbose set to true on the three-field schema at its defaults: the report
\* is {mode: "fast", tags: [], verbose: true}.
C10_Witness ==
    /\ edOp.name = "updateParameter"
    /\ editorInfo = "spec8"
    /\ edOp.key = "verbose"
    /\ edOp.value = TRUE
    /\ edPre.customParams.verbose = FALSE
    /\ Len(edReports) = 1
    /\ edReports[1].params.mode = "fast"
    /\ edReports[1].params.tags = <<>>
    /\ edReports[1].params.verbose = TRUE

\* The updateDirective calls of the last step made by its handler (not by
\* the effect of the render that follows).
HandlerCalls == {i \in 1..Len(edUpdateCalls) : edUpdateCalls[i].by = "handler"}
EffectCalls == {i \in 1..Len(edUpdateCalls) : edUpdateCalls[i].by = "effect"}

\* C11: the Switch to Advanced Mode button reports the current directive
\* sequence unchanged together with an empty params mapping, and the button's
\* handler does not call updateDirective.
C11_SwitchKeepsGroupDropsParams ==
    edOp.name = "switchToAdvanced"
    => /\ Len(edReports) >= 1
       /\ edReports[1].group = edPre.group
       /\ DOMAIN edReports[1].params = {}
       /\ HandlerCalls = {}

\* The switch on an editor that held edited params and a non-empty list.
C11_Witness ==
    /\ edOp.name = "switchToAdvanced"
    /\ DOMAIN edPre.customParams # {}
    /\ edPre.group # <<>>
    /\ Len(edReports) >= 1
    /\ edReports[1].group = edPre.group

\* The empty value of a schema type: '' for text and dropdown, [] for array,
\* false for boolean.
EmptyOfType(type) ==
    CASE type = "boolean" -> JsValue("boolean", FALSE)
      [] type = "array" -> JsValue("array", <<>>)
      [] type \in {"dropdown", "text"} -> JsValue("string", "")

\* C12: a field with no declared default and no value in the current params
\* has the empty value of its type: '' for text and dropdown, [] for array,
\* false for boolean.
C12_FallbackIsEmptyOfType ==
    mounted
    => \A n \in ArgNames(editorInfo) :
         (~ArgOf(editorInfo, n).hasDefault
          /\ n \notin Keys(CurrentParams(editorInfo, customParams)))
         => /\ CurrentValue(editorInfo, customParams, n).t = EmptyOfType(ArgOf(editorInfo, n).type).t
            /\ CurrentValue(editorInfo, customParams, n).v = EmptyOfType(ArgOf(editorInfo, n).type).v

\* An add that is an append: no index, or an index at or past the end.
IsAppend(g, index) == index = None \/ index >= Len(g)

\* C13: an add that is an append (no index, or index >= current length)
\* schedules one scroll-into-view, once the list has its new length and the
\* added element is its last one; an add with index < current length
\* schedules none. Neither scrolls at once, and the request flag is consumed.
C13_AppendSchedulesScroll ==
    lastOp.name = "add"
    => /\ Len(group) = Len(pre.group) + 1
       /\ scrolls = 0
       /\ ~shouldScrollToNew
       /\ IF IsAppend(pre.group, lastOp.index)
          THEN /\ scrollTimers = pre.scrollTimers + 1
               /\ group[Len(group)] = lastOp.directive
               /\ LastDirectiveRef(group, isExpanded)
          ELSE scrollTimers = pre.scrollTimers

\* An append by index at the end of a non-empty list has scheduled a scroll.
C13_Witness ==
    /\ lastOp.name = "add"
    /\ pre.group # <<>>
    /\ lastOp.index = Len(pre.group)
    /\ scrollTimers = pre.scrollTimers + 1

\* A middle insertion has scheduled nothing.
C13_WitnessMiddle ==
    /\ lastOp.name = "add"
    /\ lastOp.index # None
    /\ lastOp.index < Len(pre.group)
    /\ scrollTimers = pre.scrollTimers

\* C14: a scroll is scheduled only by an add that is an append, and one per
\* such add: no other step (confirmDelete, a middle insertion, the owner
\* replacing the sequence) raises the number of pending scrolls, and no
\* request flag is left behind for a later length change.
C14_ScrollOnlyForAppend ==
    /\ ~shouldScrollToNew
    /\ lastOp.name \notin {"idle", "mount"}
       => /\ scrollTimers <= pre.scrollTimers + 1
          /\ scrollTimers > pre.scrollTimers
             => lastOp.name = "add" /\ IsAppend(pre.group, lastOp.index)

\* The owner has replaced the sequence by one of another length whose last
\* item is rendered, after an earlier append, and nothing was scheduled.
C14_Witness ==
    /\ lastOp.name = "ownerReplace"
    /\ Len(group) # Len(pre.group)
    /\ LastDirectiveRef(group, isExpanded)
    /\ scrollTimers = pre.scrollTimers
    /\ scrollTimers > 0

\* confirmDelete has shortened the sequence to a non-empty one and nothing
\* was scheduled.
C14_WitnessDelete ==
    /\ lastOp.name = "confirmDelete"
    /\ Len(group) < Len(pre.group)
    /\ LastDirectiveRef(group, isExpanded)
    /\ scrollTimers = pre.scrollTimers

\* The handler that just ran is one of the mutating cases: an add, a
\* confirmed delete, a child's replacement, a move whose target is in range,
\* a drop with a drag source other than the drop position.
Mutating ==
    \/ lastOp.name \in {"add", "confirmDelete", "directiveChange"}
    \/ /\ lastOp.name = "move"
       /\ InBounds(IF lastOp.direction = "up" THEN lastOp.index - 1 ELSE lastOp.index + 1,
                   pre.group)
    \/ /\ lastOp.name = "drop"
       /\ pre.draggedIndex # None
       /\ pre.draggedIndex # lastOp.index

\* C15: every mutating operation (add, confirmDelete, in-range move,
\* effective drop, child replacement) makes exactly one report, of the whole
\* new sequence the owner then holds, and leaves the array it was given as it
\* was; every other handler run, the no-op cases included, reports nothing
\* and leaves the sequence alone.
C15_WholeValueReplace ==
    lastOp.name \notin {"idle", "mount", "ownerReplace"}
    => /\ givenGroup = pre.group
       /\ IF Mutating
          THEN Len(onChangeCalls) = 1 /\ onChangeCalls[1] = group
          ELSE onChangeCalls = <<>> /\ group = pre.group

\* An in-range move has reported a sequence that differs from the one given.
C15_Witness ==
    /\ lastOp.name = "move"
    /\ Mutating
    /\ Len(onChangeCalls) = 1
    /\ onChangeCalls[1] # pre.group
    /\ givenGroup = pre.group

\* A no-op case: a move past the end has reported nothing.
C15_WitnessNoop ==
    /\ lastOp.name = "move"
    /\ ~Mutating
    /\ onChangeCalls = <<>>

\* The editor of the most recent registerGroupEditor call for a name, absent
\* if there was none.
LastRegistered(name) ==
    LET calls == {i \in 1..Len(regHistory) : regHistory[i].name = name}
    IN IF calls = {} THEN Undefined
       ELSE regHistory[CHOOSE i \in calls : \A j \in calls : j <= i].editor

\* C16: getGroupEditor(name) returns absent for a name never registered and
\* otherwise the editor of the most recent registerGroupEditor call for that
\* name; a lookup leaves the registry as it was.
C16_LookupLastWriterWins ==
    /\ \A name \in EditorNames : MapGet(groupEditors, name) = LastRegistered(name)
    /\ regOp.name = "getGroupEditor"
       => /\ regResult = LastRegistered(regOp.key)
          /\ SameMapping(groupEditors, regPre)

\* A lookup of a name registered twice, with different editors, has returned
\* the second one; the other name, never registered, is absent.
C16_Witness ==
    /\ regOp.name = "getGroupEditor"
    /\ Len(regHistory) = 2
    /\ regHistory[1].name = regOp.key
    /\ regHistory[2].name = regOp.key
    /\ regHistory[1].editor # regHistory[2].editor
    /\ regResult = regHistory[2].editor
    /\ \E other \in EditorNames : MapGet(groupEditors, other) = Undefined

\* C17: when the scroll delay elapses and no last element is rendered any
\* more (the list was emptied or the panel collapsed), nothing is scrolled
\* and nothing changes but the elapsed timer: no report, the sequence, the
\* panel, the three indices and the request flag stay as they were.
C17_TimeoutWithoutElementSkips ==
    (lastOp.name = "scrollTimeout" /\ (pre.group = <<>> \/ ~pre.isExpanded))
    => /\ scrolls = 0
       /\ onChangeCalls = <<>>
       /\ group = pre.group
       /\ isExpanded = pre.isExpanded
       /\ draggedIndex = pre.draggedIndex
       /\ dragOverIndex = pre.dragOverIndex
       /\ deleteConfirmIndex = pre.deleteConfirmIndex
       /\ shouldScrollToNew = pre.shouldScrollToNew
       /\ scrollTimers = pre.scrollTimers - 1

\* The delay has elapsed on a list that was emptied after the append.
C17_Witness ==
    /\ lastOp.name = "scrollTimeout"
    /\ pre.group = <<>>
    /\ pre.isExpanded
    /\ scrolls = 0

\* The delay has elapsed on a collapsed panel with a non-empty list.
C17_WitnessCollapsed ==
    /\ lastOp.name = "scrollTimeout"
    /\ pre.group # <<>>
    /\ ~pre.isExpanded
    /\ scrolls = 0

\* The delay has elapsed with the last element rendered: it is scrolled to.
C17_WitnessScrolled ==
    /\ lastOp.name = "scrollTimeout"
    /\ scrolls = 1

\* C18: a shorter sequence is reported only by confirmDelete, which runs only
\* while a delete is pending and removes the pending index; a delete becomes
\* pending only by requestDelete(i), which sets pendingDelete = i, reports
\* nothing and changes nothing else, and stops being pending by cancelDelete
\* or confirmDelete; no other handler touches pendingDelete.
C18_NoRemovalWithoutConfirmation ==
    lastOp.name \notin {"idle", "mount"}
    => /\ (Len(group) < Len(pre.group)
           \/ \E i \in 1..Len(onChangeCalls) : Len(onChangeCalls[i]) < Len(pre.group))
          => /\ lastOp.name = "confirmDelete"
             /\ pre.deleteConfirmIndex # None
             /\ lastOp.index = pre.deleteConfirmIndex
       /\ lastOp.name = "requestDelete"
          => /\ deleteConfirmIndex = lastOp.index
             /\ onChangeCalls = <<>>
             /\ group = pre.group
             /\ isExpanded = pre.isExpanded
             /\ draggedIndex = pre.draggedIndex
             /\ dragOverIndex = pre.dragOverIndex
       /\ lastOp.name \in {"cancelDelete", "confirmDelete"} => deleteConfirmIndex = None
       /\ deleteConfirmIndex # pre.deleteConfirmIndex
          => lastOp.name \in {"requestDelete", "cancelDelete", "confirmDelete"}

\* A delete was requested on a list of several items: it is pending and the
\* list is as it was.
C18_Witness ==
    /\ lastOp.name = "requestDelete"
    /\ Len(pre.group) >= 2
    /\ pre.deleteConfirmIndex = None
    /\ deleteConfirmIndex = lastOp.index
    /\ group = pre.group

\* The pending delete was confirmed: a shorter sequence is reported.
C18_WitnessConfirmed ==
    /\ lastOp.name = "confirmDelete"
    /\ Len(onChangeCalls) = 1
    /\ Len(onChangeCalls[1]) < Len(pre.group)

\* C19: dragLeave sets dragOverTarget to none and leaves dragSource as it
\* was; dragEnd sets both to none; neither reports a sequence nor changes
\* the sequence, pendingDelete or expanded.
C19_DragLeaveAndEndClear ==
    lastOp.name \in {"dragLeave", "dragEnd"}
    => /\ dragOverIndex = None
       /\ draggedIndex = IF lastOp.name = "dragLeave" THEN pre.draggedIndex ELSE None
       /\ onChangeCalls = <<>>
       /\ group = pre.group
       /\ deleteConfirmIndex = pre.deleteConfirmIndex
       /\ isExpanded = pre.isExpanded

\* dragLeave during a drag over an item, with a delete pending: the hover
\* target is gone, the drag source and the pending delete remain.
C19_Witness ==
    /\ lastOp.name = "dragLeave"
    /\ pre.draggedIndex # None
    /\ pre.dragOverIndex # None
    /\ pre.deleteConfirmIndex # None
    /\ draggedIndex = pre.draggedIndex
    /\ dragOverIndex = None

\* dragEnd during a drag over an item: both indices are gone.
C19_WitnessEnd ==
    /\ lastOp.name = "dragEnd"
    /\ pre.draggedIndex # None
    /\ pre.dragOverIndex # None
    /\ draggedIndex = None
    /\ dragOverIndex = None

\* C20: the auto-initialization reports at most once per mounted instance; a
\* re-render with still-empty custom params makes no report and no call of
\* updateDirective.
C20_AutoInitAtMostOnce ==
    /\ autoInitReports <= 1
    /\ Cardinality(EffectCalls) <= 1
    /\ (edOp.name = "rerender" /\ Keys(edPre.customParams) = {})
       => /\ edReports = <<>>
          /\ edUpdateCalls = <<>>
          /\ Keys(customParams) = {}

\* A re-render with still-empty custom params after the mount reported the
\* (empty) defaults: nothing is reported again.
C20_Witness ==
    /\ edOp.name = "rerender"
    /\ Keys(edPre.customParams) = {}
    /\ autoInitReports = 1
    /\ initializedRef
    /\ edReports = <<>>

\* C21: registerGroupEditor(name, editor) stores editor under name and calls
\* registerDirective exactly once, with the editor's metadata carrying the
\* form component generated for that editor; no call removes an entry, so a
\* name once registered is found by every later getGroupEditor.
C21_RegisterStoresAndRegistersOnce ==
    /\ Len(registerDirectiveCalls) = Len(regHistory)
    /\ \A i \in 1..Len(regHistory) :
         /\ registerDirectiveCalls[i].key = EditorMetadata(regHistory[i].editor).key
         /\ registerDirectiveCalls[i].component.of = "createGroupEditorComponent"
         /\ registerDirectiveCalls[i].component.editorInfo = regHistory[i].editor
         /\ regHistory[i].name \in DOMAIN groupEditors
    /\ DOMAIN regPre \subseteq DOMAIN groupEditors
    /\ regOp.name = "registerGroupEditor"
       => /\ MapGet(groupEditors, regOp.key) = regOp.editor
          /\ regHistory[Len(regHistory)] = [name |-> regOp.key, editor |-> regOp.editor]
          /\ \A k \in DOMAIN regPre \ {regOp.key} : groupEditors[k] = regPre[k]
    /\ (regOp.name = "getGroupEditor"
        /\ \E i \in 1..Len(regHistory) : regHistory[i].name = regOp.key)
       => regResult # Undefined

\* A second name was registered: both names are held, and there is one
\* registerDirective call per registration.
C21_Witness ==
    /\ regOp.name = "registerGroupEditor"
    /\ DOMAIN regPre # {}
    /\ regOp.key \notin DOMAIN regPre
    /\ DOMAIN groupEditors = EditorNames
    /\ Len(registerDirectiveCalls) = 2

\* A name registered earlier is found after later registrations of the other.
C21_WitnessFound ==
    /\ regOp.name = "getGroupEditor"
    /\ Len(regHistory) = MaxRegs
    /\ regHistory[1].name = regOp.key
    /\ \A i \in 2..MaxRegs : regHistory[i].name # regOp.key
    /\ regResult = regHistory[1].editor

\* C22: a replacement reported by the child at index i yields one reported
\* sequence of the same length, with the updated directive at position i and
\* every other position as before; expanded, dragSource, dragOverTarget and
\* pendingDelete stay as they were.
C22_ChildReplacement ==
    lastOp.name = "directiveChange"
    => /\ Len(onChangeCalls) = 1
       /\ Len(onChangeCalls[1]) = Len(pre.group)
       /\ InBounds(lastOp.index, pre.group)
       /\ \A k \in 0..(Len(pre.group) - 1) :
            onChangeCalls[1][k + 1] = IF k = lastOp.index THEN lastOp.directive
                                      ELSE pre.group[k + 1]
       /\ isExpanded = pre.isExpanded
       /\ draggedIndex = pre.draggedIndex
       /\ dragOverIndex = pre.dragOverIndex
       /\ deleteConfirmIndex = pre.deleteConfirmIndex

\* The middle child of three reported another directive during a drag with a
\* delete pending.
C22_Witness ==
    /\ lastOp.name = "directiveChange"
    /\ Len(pre.group) = 3
    /\ lastOp.index = 1
    /\ lastOp.directive # pre.group[2]
    /\ pre.draggedIndex # None
    /\ pre.deleteConfirmIndex # None
    /\ Len(onChangeCalls) = 1
    /\ onChangeCalls[1][2] = lastOp.directive

\* C23: a newly mounted list editor is expanded with dragSource,
\* dragOverTarget and pendingDelete none; toggleExpand flips expanded,
\* reports nothing and changes nothing else, so a second toggle (which flips
\* expanded again) restores the state the first one started from.
C23_MountAndToggle ==
    /\ lastOp.name = "mount"
       => /\ isExpanded
          /\ draggedIndex = None
          /\ dragOverIndex = None
          /\ deleteConfirmIndex = None
          /\ onChangeCalls = <<>>
    /\ lastOp.name = "toggleExpand"
       => /\ isExpanded = ~pre.isExpanded
          /\ (~isExpanded) = pre.isExpanded
          /\ onChangeCalls = <<>>
          /\ group = pre.group
          /\ draggedIndex = pre.draggedIndex
          /\ dragOverIndex = pre.dragOverIndex
          /\ deleteConfirmIndex = pre.deleteConfirmIndex
          /\ shouldScrollToNew = pre.shouldScrollToNew
          /\ scrollTimers = pre.scrollTimers

\* The panel was expanded again, with a drag going on and a delete pending.
C23_Witness ==
    /\ lastOp.name = "toggleExpand"
    /\ ~pre.isExpanded
    /\ isExpanded
    /\ pre.draggedIndex # None
    /\ pre.deleteConfirmIndex # None
    /\ deleteConfirmIndex = pre.deleteConfirmIndex

\* The editor has just been mounted on a non-empty list.
C23_WitnessMount ==
    /\ lastOp.name = "mount"
    /\ group # <<>>
    /\ isExpanded

\* How often element x occurs in sequence s.
Occurrences(s, x) == Cardinality({i \in 1..Len(s) : s[i] = x})

\* C24: each sequence reported by move or drop is a permutation of the
\* sequence the handler started from: same length, the same number of
\* occurrences of every element, and no undefined element.
C24_ReorderConservesElements ==
    lastOp.name \in {"move", "drop"}
    => \A c \in 1..Len(onChangeCalls) :
         /\ Len(onChangeCalls[c]) = Len(pre.group)
         /\ \A x \in Directives \cup {Undefined} :
              Occurrences(onChangeCalls[c], x) = Occurrences(pre.group, x)
         /\ Occurrences(onChangeCalls[c], Undefined) = 0

\* C25: for every effective drop (drag source a # target b, both in bounds)
\* the reported sequence is the original one with the dragged element taken
\* out and put immediately before the element that was at index b; a drop
\* onto the immediately following element (b = a + 1) reports the original
\* order.
C25_DropInsertsBefore ==
    (/\ lastOp.name = "drop"
     /\ pre.draggedIndex # None
     /\ pre.draggedIndex # lastOp.index
     /\ InBounds(pre.draggedIndex, pre.group)
     /\ InBounds(lastOp.index, pre.group))
    => LET a == pre.draggedIndex
           b == lastOp.index
       IN /\ Len(onChangeCalls) = 1
          /\ Len(onChangeCalls[1]) = Len(pre.group)
          /\ \E p \in 0..(Len(pre.group) - 2) :
               /\ onChangeCalls[1][p + 1] = pre.group[a + 1]
               /\ onChangeCalls[1][p + 2] = pre.group[b + 1]
               /\ p = (IF a < b THEN b - 1 ELSE b)
               /\ RemoveAtIdx(onChangeCalls[1], p) = RemoveAtIdx(pre.group, a)
          /\ b = a + 1 => onChangeCalls[1] = pre.group

\* A drop further up: the dragged element now sits right before the element
\* it was dropped on, and the order has changed.
C25_Witness ==
    /\ lastOp.name = "drop"
    /\ pre.draggedIndex # None
    /\ InBounds(pre.draggedIndex, pre.group)
    /\ lastOp.index < pre.draggedIndex
    /\ Len(onChangeCalls) = 1
    /\ onChangeCalls[1] # pre.group
    /\ onChangeCalls[1][lastOp.index + 1] = pre.group[pre.draggedIndex + 1]
    /\ onChangeCalls[1][lastOp.index + 2] = pre.group[lastOp.index + 1]

\* A drop onto the immediately following element of a list whose two
\* elements differ: the original order is reported.
C25_WitnessNext ==
    /\ lastOp.name = "drop"
    /\ pre.draggedIndex # None
    /\ lastOp.index = pre.draggedIndex + 1
    /\ InBounds(lastOp.index, pre.group)
    /\ pre.group[pre.draggedIndex + 1] # pre.group[lastOp.index + 1]
    /\ onChangeCalls = <<pre.group>>

\* C26: once Switch to Advanced Mode has reported the empty params mapping
\* and the editor is rendered with it, nothing further is reported: the
\* button's report is the only one, the auto-initialization makes no
\* updateDirective call, and the editor keeps empty custom params and the
\* directive list it had, whatever custom params it was mounted with.
C26_SwitchStaysAdvanced ==
    edOp.name = "switchToAdvanced"
    => /\ Len(edReports) = 1
       /\ EffectCalls = {}
       /\ Keys(customParams) = {}
       /\ edGroup = edPre.group

\* The defaults of a schema overridden by the latest value of each edited key.
DefaultsOverridden(e, edits) ==
    [k \in DOMAIN DeclaredDefaults(e) \cup DOMAIN edits |->
        IF k \in DOMAIN edits THEN edits[k] ELSE DeclaredDefaults(e)[k]]

\* C27: for an editor mounted with empty custom params whose owner feeds
\* every reported mapping back, after any sequence of field edits the last
\* reported params are the schema defaults overridden by the most recent
\* value of each edited key, and the last reported directive list is
\* updateDirective of that mapping.
C27_EditsAccumulate ==
    (onlyEdits /\ edOp.name = "updateParameter")
    => /\ Len(edReports) = 1
       /\ SameMapping(edReports[1].params, DefaultsOverridden(editorInfo, editedParams))
       /\ SameMapping(customParams, DefaultsOverridden(editorInfo, editedParams))
       /\ edReports[1].group
            = UpdateDirective(editorInfo, DefaultsOverridden(editorInfo, editedParams))

\* Three different fields have been edited one after the other, the first
\* two away from their defaults: all three edits are in the last report.
C27_Witness ==
    /\ onlyEdits
    /\ edOp.name = "updateParameter"
    /\ editorInfo = "spec8"
    /\ DOMAIN editedParams = {"mode", "tags", "verbose"}
    /\ edOp.key = "verbose"
    /\ editedParams["mode"] = "slow"
    /\ editedParams["tags"] = <<"x">>
    /\ Len(edReports) = 1
    /\ edReports[1].params["mode"] = "slow"
    /\ edReports[1].params["tags"] = <<"x">>

====
